---- MODULE Spec2Model ----
(***************************************************************************)
(* Model of paddle.distributed.fleet.utils.recompute: the recomputation    *)
(* operator RecomputeFunction (forward / backward), detach_variable,       *)
(* check_recompute_necessary, the RNG guard swith_rng_state and the public *)
(* entry point recompute().                                                *)
(*                                                                         *)
(* Every call of the program is one action.  What a call did is recorded   *)
(* in an observation record (fwd[c], bwd[c]): the events it performed in   *)
(* order, the RNG state it started and ended with, its outcome and result. *)
(***************************************************************************)
EXTENDS Integers, Sequences, FiniteSets, TLC

VARIABLES
    rng,      \* the device RNG state (paddle.get/set_cuda_rng_state)
    device,   \* paddle.get_device(), a string kept as a tuple of characters
    objs,     \* objs[c]: the caller's argument objects of the call on context c
    ctx,      \* ctx[c]: the PyLayer context of call c
    fwd,      \* fwd[c]: what recompute()/forward of call c did
    bwd,      \* bwd[c]: what the last backward on context c did
    ambient,  \* RNG draws made so far by the surrounding program
    stack,    \* the RNG guards entered and not yet exited, innermost first
    raising,  \* a failure raised inside a guarded block is propagating
    guardLog, \* what the last guard step did
    tracer, \* the gradient-tracking flag of the ambient tracer and of a new one
    streams, \* streams[s]: the guarded replay of device stream s
    ps, \* the parameter-server job: each node's position, and who ran the one-off steps
    runObs  \* what the last call of AsyncExecutor.run did

vars == <<rng, device, objs, ctx, fwd, bwd, ambient, stack, raising, guardLog, tracer, streams, ps, runObs>>

-----------------------------------------------------------------------------
(* Bounds *)

MaxArgs == 3      \* positional arguments of a recompute call
MaxGrads == 2     \* incoming gradients of a backward call
MaxAmbient == 2   \* RNG draws the surrounding program makes on its own
MaxDepth == 2     \* nesting depth of RNG guards
MaxBackward == 2   \* backward passes over one recompute context
NumPairs == 2      \* server/worker pairs of the parameter-server job
MaxFetch == 2      \* variables in a fetch list
MaxGuardRng == 2  \* largest RNG state the guarded blocks reach or are given

-----------------------------------------------------------------------------
(* Values *)

NoState == [set |-> FALSE, state |-> 0]   \* an RNG state that was never taken
SomeState(r) == [set |-> TRUE, state |-> r]

NoGrad == [has |-> FALSE, val |-> 0]      \* _grad_ivar() is None
Grad(n) == [has |-> TRUE, val |-> n]

RECURSIVE SumSeq(_)
SumSeq(s) == IF s = <<>> THEN 0 ELSE Head(s) + SumSeq(Tail(s))

RECURSIVE ProdSeq(_)
ProdSeq(s) == IF s = <<>> THEN 1 ELSE Head(s) * ProdSeq(Tail(s))

RECURSIVE SeqsUpTo(_, _)
SeqsUpTo(S, n) ==
    IF n = 0 THEN {<<>>}
    ELSE LET shorter == SeqsUpTo(S, n - 1)
         IN  shorter \cup {Append(s, x) : s \in {t \in shorter : Len(t) = n - 1}, x \in S}

\* Every argument value is a record of one shape.  A tensor has an identity
\* (id: which caller object it is; 0 for an object created during the call), the
\* storage it aliases, its stop_gradient flag and whether it is connected to
\* the autograd graph that produced it.
Tensor(id, storage, stop, attached) ==
    [kind |-> "tensor", id |-> id, storage |-> storage, stop_gradient |-> stop,
     attached |-> attached, val |-> 0]

NonTensor(kind, val) ==
    [kind |-> kind, id |-> 0, storage |-> 0, stop_gradient |-> TRUE,
     attached |-> FALSE, val |-> val]

NoneVal == NonTensor("none", 0)   \* Python's None
IntVal(n) == NonTensor("int", n)  \* a plain scalar constant

\* The values the i-th positional argument can take: the caller's i-th object
\* is a tensor owning storage i (tracked or not), None, or the scalar 2.
ArgValues(i) == {Tensor(i, i, FALSE, TRUE), Tensor(i, i, TRUE, TRUE), NoneVal, IntVal(2)}

RECURSIVE ArgLists(_)
ArgLists(n) ==
    IF n = 0 THEN {<<>>}
    ELSE LET shorter == ArgLists(n - 1)
         IN  shorter \cup {Append(s, x) : s \in {t \in shorter : Len(t) = n - 1},
                                          x \in ArgValues(n)}

\* paddle.is_tensor(x), isinstance(x, core.VarBase), isinstance(x, paddle.Tensor):
\* in dygraph mode paddle.Tensor is core.VarBase, so the three tests agree.
IsTensor(x) == x.kind = "tensor"

\* The positions of the tensors of s, in increasing order.
RECURSIVE TensorPositionsFrom(_, _)
TensorPositionsFrom(s, i) ==
    IF i > Len(s) THEN <<>>
    ELSE (IF IsTensor(s[i]) THEN <<i>> ELSE <<>>) \o TensorPositionsFrom(s, i + 1)

TensorPositions(s) == TensorPositionsFrom(s, 1)

-----------------------------------------------------------------------------
(* The device RNG and the user's run_function *)

\* One draw from the device generator in state r: the value drawn and the
\* state left behind.  Distinct states draw distinct values.
Draw(r) == [value |-> r + 1, next |-> r + 1]

RECURSIVE DrawN(_, _)
DrawN(r, n) == IF n = 0 THEN r ELSE DrawN(Draw(r).next, n - 1)

\* A run_function is described by the outputs it returns, whether it returns
\* a bare tensor or a tuple, how many random draws it makes (a dropout mask),
\* and whether it raises after drawing.
\*   "sum":   mask * scale * (sum of the tensor arguments)
\*   "first": scale * (the first tensor argument)
\*   "const": a freshly created tensor, which never needs a gradient
Function(name, outs, single, draws, raises) ==
    [name |-> name, outs |-> outs, single |-> single, draws |-> draws, raises |-> raises]

Functions ==
    { Function("scale",   <<"sum">>,          TRUE,  0, FALSE),
      Function("dropout", <<"sum">>,          TRUE,  1, FALSE),
      Function("pair",    <<"sum", "first">>, FALSE, 0, FALSE),
      Function("mixed",   <<"sum", "const">>, FALSE, 1, FALSE),
      Function("const",   <<"const">>,        FALSE, 0, FALSE),
      Function("raise",   <<>>,               FALSE, 1, TRUE) }

\* The product of the scalar non-tensor arguments.
Scale(argv) ==
    ProdSeq([i \in 1..Len(argv) |-> IF argv[i].kind = "int" THEN argv[i].val ELSE 1])

OutputTensor(stop, val, deps, coef) ==
    [kind |-> "tensor", stop_gradient |-> stop, val |-> val, deps |-> deps, coef |-> coef]

\* run_function(*argv) from RNG state r, with the tracer recording gradients
\* (tracking) or not.  An output is gradient-tracked when the tracer records
\* and some tensor it was computed from is tracked; deps and coef are the
\* backward edges the tracer recorded for it.
RunFunction(f, argv, r, tracking) ==
    LET tpos  == TensorPositions(argv)
        mask  == IF f.draws > 0 THEN Draw(r).value ELSE 1
        Deps(kind) ==
            CASE kind = "sum"   -> {tpos[k] : k \in 1..Len(tpos)}
              [] kind = "first" -> IF tpos = <<>> THEN {} ELSE {tpos[1]}
              [] OTHER          -> {}
        Coef(kind) ==
            CASE kind = "sum"   -> mask * Scale(argv)
              [] kind = "first" -> Scale(argv)
              [] OTHER          -> 0
        Data(kind) ==
            IF kind = "const" THEN 1
            ELSE Coef(kind) * SumSeq([k \in 1..Len(tpos) |->
                     IF tpos[k] \in Deps(kind) THEN argv[tpos[k]].storage ELSE 0])
        Tracked(kind) ==
            tracking /\ \E i \in Deps(kind) : ~argv[i].stop_gradient
        Out(kind) ==
            OutputTensor(~Tracked(kind), Data(kind),
                         IF Tracked(kind) THEN Deps(kind) ELSE {},
                         IF Tracked(kind) THEN Coef(kind) ELSE 0)
    IN  [raised  |-> f.raises,
         single  |-> f.single,
         items   |-> IF f.raises THEN <<>> ELSE [k \in 1..Len(f.outs) |-> Out(f.outs[k])],
         rng     |-> DrawN(r, f.draws)]

\* What a call hands back: a bare tensor (single) or a tuple of items.
Outputs(run) == [single |-> run.single, items |-> run.items]
NoOutputs == [single |-> FALSE, items |-> <<>>]

-----------------------------------------------------------------------------
(* Runtime capabilities the recompute module calls *)

\* paddle.get_device() returns a string such as "cpu" or "gpu:0".
Devices ==
    { <<"c", "p", "u">>, <<"g", "p", "u", ":", "0">>, <<"x", "p", "u", ":", "0">> }

\* Python's  pat in s  on strings.
Contains(pat, s) ==
    \E i \in 0..(Len(s) - Len(pat)) : SubSeq(s, i + 1, i + Len(pat)) = pat

\* Tensor.detach(): a new tensor on the same storage, cut from the graph, with
\* gradient tracking cleared.
Detach(t) == Tensor(0, t.storage, TRUE, FALSE)

\* paddle.autograd.backward(tensors, grad_tensors): from every root tensors[k]
\* with gradient grad_tensors[k], accumulate along the recorded edges into the
\* tracked leaves.  The result is the gradient accumulator of every leaf.
RECURSIVE Accumulated(_, _, _, _)
Accumulated(tensors, grad_tensors, i, k) ==
    IF k > Len(tensors) THEN 0
    ELSE (IF i \in tensors[k].deps THEN grad_tensors[k] * tensors[k].coef ELSE 0)
         + Accumulated(tensors, grad_tensors, i, k + 1)

AutogradBackward(tensors, grad_tensors, leaves) ==
    [i \in 1..Len(leaves) |->
        IF /\ IsTensor(leaves[i])
           /\ ~leaves[i].stop_gradient
           /\ \E k \in 1..Len(tensors) : i \in tensors[k].deps
        THEN Grad(Accumulated(tensors, grad_tensors, i, 1))
        ELSE NoGrad]

-----------------------------------------------------------------------------
(* recompute.py *)

\* A detach that leaves the flag as detach() set it.
DetachTensorFlagLost(inp) == [x |-> Detach(inp), inp |-> inp]

\* detach_variable, lines 34-36, for one tensor: the detached copy x and the
\* input object as the statements leave it.
DetachTensor(inp) ==
    LET x == [Detach(inp) EXCEPT !.stop_gradient = inp.stop_gradient]
    IN  [x |-> x, inp |-> inp]

\* detach_variable(inputs): the returned tuple, and the input objects after
\* the call.
DetachVariable(inputs) ==
    [out    |-> [i \in 1..Len(inputs) |->
                    IF ~IsTensor(inputs[i]) THEN inputs[i]
                    ELSE DetachTensor(inputs[i]).x],
     inputs |-> [i \in 1..Len(inputs) |->
                    IF ~IsTensor(inputs[i]) THEN inputs[i]
                    ELSE DetachTensor(inputs[i]).inp]]

\* A check that warns as soon as one tensor is untracked.
CheckEveryTensorTracked(inputs) ==
    \E i \in 1..Len(inputs) :
        IsTensor(inputs[i]) /\ inputs[i].stop_gradient = TRUE

\* check_recompute_necessary(inputs): TRUE when the warning is logged.
CheckRecomputeNecessary(inputs) ==
    ~ \E i \in 1..Len(inputs) :
        IsTensor(inputs[i]) /\ inputs[i].stop_gradient = FALSE

\* A guard that saves the current state but never installs the given one.
SwithEnterNoInstall(rng_state, cur) == [orig |-> cur, installed |-> cur]

\* A guard that keeps the given state as the one to restore.
SwithEnterSavesGiven(rng_state, cur) == [orig |-> rng_state, installed |-> rng_state]

\* swith_rng_state, lines 50-51: save the current state, install rng_state.
SwithEnter(rng_state, cur) == [orig |-> cur, installed |-> rng_state]

\* A guard that never restores.
SwithExitKeep(orig, cur, failed) == cur

\* A guard without try/finally: it restores only when the block returns.
SwithExitNoFinally(orig, cur, failed) == IF failed THEN cur ELSE orig

\* swith_rng_state, lines 52-55: the finally clause restores the saved state,
\* whether the block returned or raised; cur is the state the block left.
SwithExit(orig, cur, failed) == orig

\* The context object of one call.  saved holds the tensors given to
\* save_for_backward, as references (ids) to the caller's objects.
NoFunction == Function("none", <<>>, FALSE, 0, FALSE)

NoCtx ==
    [run_function |-> NoFunction, preserve_rng_state |-> FALSE, inputs |-> <<>>,
     tensor_indices |-> <<>>, saved |-> <<>>, fw_cuda_rng_state |-> NoState]

\* A loop that forgets the placeholder of a tensor argument.
RECURSIVE PartitionNoPlaceholder(_, _, _)
PartitionNoPlaceholder(args, i, acc) ==
    IF i > Len(args) THEN acc
    ELSE PartitionNoPlaceholder(args, i + 1,
            IF IsTensor(args[i])
            THEN [acc EXCEPT !.tensor_indices = Append(@, i),
                             !.tensor_inputs = Append(@, args[i].id)]
            ELSE [acc EXCEPT !.inputs = Append(@, args[i])])

\* forward, lines 72-82: the loop over enumerate(args) from position i on.
\* Positions are counted from 1 here, from 0 in the source.
RECURSIVE Partition(_, _, _)
Partition(args, i, acc) ==
    IF i > Len(args) THEN acc
    ELSE Partition(args, i + 1,
            IF IsTensor(args[i])
            THEN [inputs         |-> Append(acc.inputs, NoneVal),
                  tensor_indices |-> Append(acc.tensor_indices, i),
                  tensor_inputs  |-> Append(acc.tensor_inputs, args[i].id)]
            ELSE [acc EXCEPT !.inputs = Append(@, args[i])])

\* A device check that ignores the flag.
UnsupportedAnyFlag(preserve_rng_state, dev) ==
    ~Contains(<<"g", "p", "u", ":">>, dev)

\* forward, lines 86-88: RNG preservation was asked for and the current device
\* is not a GPU.
Unsupported(preserve_rng_state, dev) ==
    preserve_rng_state /\ ~Contains(<<"g", "p", "u", ":">>, dev)

\* Gradient-tracking scopes.  A scope is entered with the tracking flag of the
\* surrounding code and left with the flag its block ended with.

\* paddle.no_grad(): tracking is off inside the block.
NoGradEnter(mode) == [saved |-> mode, inside |-> FALSE]

\* paddle.no_grad() puts the flag back when the block ends or raises.
NoGradExit(saved, inside) == saved

\* paddle.fluid.dygraph.guard(): the block runs under a newly made tracer,
\* whose flag is fresh.
DygraphGuardEnter(mode, fresh) == [saved |-> mode, inside |-> fresh]

\* paddle.fluid.dygraph.guard() makes the previous tracer current again when
\* the block ends or raises.
DygraphGuardExit(saved, inside) == saved

\* A backward that leaves the flag of the tracer as it finds it.
HasGradUntouched(flag) == flag

\* backward, lines 114-115: tracer._has_grad = True.
HasGrad(flag) == TRUE

\* RecomputeFunction.forward(ctx, run_function, preserve_rng_state, *args) on
\* device dev with the device RNG in state r: the context it leaves, the RNG
\* state it leaves, the events it performed in order, and how it ended.
Forward(run_function, preserve_rng_state, args, r, dev, mode) ==
    LET warn  == CheckRecomputeNecessary(args)
        part  == Partition(args, 1,
                    [inputs |-> <<>>, tensor_indices |-> <<>>, tensor_inputs |-> <<>>])
        ctx1  == [run_function       |-> run_function,
                  preserve_rng_state |-> preserve_rng_state,
                  inputs             |-> part.inputs,
                  tensor_indices     |-> part.tensor_indices,
                  saved              |-> part.tensor_inputs,
                  fw_cuda_rng_state  |-> NoState]
        ev1   == (IF warn THEN <<"diagnostic">> ELSE <<>>) \o <<"save_for_backward">>
        unsupported == Unsupported(preserve_rng_state, dev)
        ctx2  == IF preserve_rng_state
                 THEN [ctx1 EXCEPT !.fw_cuda_rng_state = SomeState(r)]
                 ELSE ctx1
        ev2   == ev1 \o (IF preserve_rng_state
                         THEN <<"get_device", "get_cuda_rng_state">> ELSE <<>>)
        scope == NoGradEnter(mode)
        run   == RunFunction(run_function, args, r, scope.inside)
    IN  IF unsupported
        THEN [ctx |-> ctx1, rng |-> r, events |-> ev1 \o <<"get_device">>,
              outcome |-> "UnsupportedDeviceError", rngAtRun |-> NoState,
              result |-> NoOutputs, tracking |-> <<>>, mode |-> mode]
        ELSE [ctx |-> ctx2, rng |-> run.rng, events |-> ev2 \o <<"run_function">>,
              outcome |-> IF run.raised THEN "RunFunctionError" ELSE "returned",
              rngAtRun |-> SomeState(r),
              result |-> IF run.raised THEN NoOutputs ELSE Outputs(run),
              tracking |-> <<scope.inside>>,
              mode |-> NoGradExit(scope.saved, scope.inside)]

\* RecomputeFunction.apply(run_function, preserve_rng_state, *args): the
\* PyLayer runtime makes a fresh context, calls forward once with it and
\* returns what forward returns.
Apply(run_function, preserve_rng_state, args, r, dev, mode) ==
    Forward(run_function, preserve_rng_state, args, r, dev, mode)

\* Keyword arguments are a set of <<name, value>> pairs.
HasKey(kwargs, key) == \E kv \in kwargs : kv[1] = key
ValueOf(kwargs, key) == (CHOOSE kv \in kwargs : kv[1] = key)[2]

\* A default of False for the flag.
PreserveFlagDefaultFalse(kwargs) ==
    IF HasKey(kwargs, "preserve_rng_state")
    THEN ValueOf(kwargs, "preserve_rng_state") ELSE FALSE

\* recompute, line 172: kwargs.pop('preserve_rng_state', True).
PreserveFlag(kwargs) ==
    IF HasKey(kwargs, "preserve_rng_state")
    THEN ValueOf(kwargs, "preserve_rng_state") ELSE TRUE

\* recompute(function, *args, **kwargs), lines 172-177; forwards counts the
\* calls of forward.
RecomputeCall(function, args, kwargs, r, dev, mode) ==
    LET preserve == PreserveFlag(kwargs)
        rest     == {kv \in kwargs : kv[1] # "preserve_rng_state"}
        call     == Apply(function, preserve, args, r, dev, mode)
    IN  IF rest # {}
        THEN [ctx |-> NoCtx, rng |-> r, events |-> <<>>,
              outcome |-> "InvalidArgumentError", rngAtRun |-> NoState,
              result |-> NoOutputs, forwards |-> 0, preserve |-> preserve,
              tracking |-> <<>>, mode |-> mode]
        ELSE [ctx |-> call.ctx, rng |-> call.rng, events |-> call.events,
              outcome |-> call.outcome, rngAtRun |-> call.rngAtRun,
              result |-> call.result, forwards |-> 1, preserve |-> preserve,
              tracking |-> call.tracking, mode |-> call.mode]

\* backward, lines 107-111: the saved tensors put back at their positions.
RECURSIVE Reassemble(_, _, _, _)
Reassemble(inputs, tensor_indices, tensors, i) ==
    IF i > Len(tensor_indices) THEN inputs
    ELSE Reassemble([inputs EXCEPT ![tensor_indices[i]] = tensors[i]],
                    tensor_indices, tensors, i + 1)

\* backward, lines 127-128: a bare tensor becomes a 1-tuple.
NormalizeOutputs(out) == IF out.single THEN <<out.items[1]>> ELSE out.items

\* A check that only catches missing gradients.
CountMismatchTooFew(outputs, args) == Len(outputs) > Len(args)

\* backward, line 129: the assertion on the two lengths fails.
CountMismatch(outputs, args) == Len(outputs) # Len(args)

\* backward, lines 132-137: the outputs that are tensors needing a gradient.
RECURSIVE OutputsWithGrad(_, _)
OutputsWithGrad(outputs, i) ==
    IF i > Len(outputs) THEN <<>>
    ELSE (IF outputs[i].kind = "tensor" /\ ~outputs[i].stop_gradient
          THEN <<outputs[i]>> ELSE <<>>) \o OutputsWithGrad(outputs, i + 1)

\* A backward that never notices that nothing needs a gradient.
NoneSelectedIgnored(selected) == FALSE

\* backward, lines 138-141: no output needs a gradient.
NoneSelected(selected) == Len(selected) = 0

\* backward, line 133: the gradients handed to the local backward driver.
BackwardInputs(outputs, args) == args

\* One entry per input, tensor or not.
GradsOfAllInputs(detached_inputs, accum) == accum

\* backward, lines 151-152: the accumulators of the tensors of detached_inputs.
Grads(detached_inputs, accum) ==
    LET tpos == TensorPositions(detached_inputs)
    IN  [k \in 1..Len(tpos) |-> accum[tpos[k]]]

\* A backward that fills the tensors into ctx.inputs itself.
InputsAliased(ctx_inputs, restored) == restored

\* backward, line 107: inputs = list(ctx.inputs) is a list of its own, so
\* ctx.inputs is what it was when the local list has become restored.
InputsKept(ctx_inputs, restored) == ctx_inputs

\* RecomputeFunction.backward(ctx, *args) with the caller's objects heap, the
\* device RNG in state r, the ambient tracking flag mode and the flag fresh of
\* a newly made tracer.
Backward(cx, heap, args, r, mode, fresh) ==
    LET tensors  == [k \in 1..Len(cx.saved) |-> heap[cx.saved[k]]]
        inputs   == Reassemble(cx.inputs, cx.tensor_indices, tensors, 1)
        scope    == DygraphGuardEnter(mode, fresh)
        has_grad == HasGrad(scope.inside)
        guard    == SwithEnter(cx.fw_cuda_rng_state.state, r)
        start    == IF cx.preserve_rng_state THEN guard.installed ELSE r
        det      == DetachVariable(inputs)
        run      == RunFunction(cx.run_function, det.out, start, has_grad)
        after    == IF cx.preserve_rng_state
                    THEN SwithExit(guard.orig, run.rng, run.raised)
                    ELSE run.rng
        outputs  == NormalizeOutputs(Outputs(run))
        selected == OutputsWithGrad(outputs, 1)
        backward_inputs == BackwardInputs(outputs, args)
        accum    == AutogradBackward(selected, backward_inputs, det.out)
        ev0      == (IF cx.preserve_rng_state
                     THEN <<"get_cuda_rng_state", "set_cuda_rng_state">> ELSE <<>>)
                    \o <<"detach_variable", "run_function">>
                    \o (IF cx.preserve_rng_state THEN <<"set_cuda_rng_state">> ELSE <<>>)
        Ended(outcome, events, roots, rootGrads, acc, grads) ==
            [heap |-> [j \in 1..Len(heap) |->
                          IF \E i \in 1..Len(inputs) :
                                IsTensor(inputs[i]) /\ inputs[i].id = j
                          THEN det.inputs[CHOOSE i \in 1..Len(inputs) :
                                             IsTensor(inputs[i]) /\ inputs[i].id = j]
                          ELSE heap[j]],
             rng |-> after, events |-> events, outcome |-> outcome,
             rngAtRun |-> SomeState(start), replayArgs |-> det.out,
             outputs |-> IF run.raised THEN NoOutputs ELSE Outputs(run),
             roots |-> roots, rootGrads |-> rootGrads, accum |-> acc, grads |-> grads,
             ctx |-> [cx EXCEPT !.inputs = InputsKept(cx.inputs, inputs)],
             tracking |-> <<has_grad>>,
             mode |-> DygraphGuardExit(scope.saved, has_grad)]
    IN  IF run.raised
        THEN Ended("RunFunctionError", ev0, <<>>, <<>>, <<>>, <<>>)
        ELSE IF CountMismatch(outputs, args)
        THEN Ended("ShapeMismatchError", ev0, <<>>, <<>>, <<>>, <<>>)
        ELSE IF NoneSelected(selected)
        THEN Ended("NoGradientRequiredError", ev0, <<>>, <<>>, <<>>, <<>>)
        ELSE IF Len(backward_inputs) # Len(selected)
        THEN Ended("GradientCountMismatchError", ev0, <<>>, <<>>, <<>>, <<>>)
        ELSE Ended("returned", ev0 \o <<"autograd_backward">>,
                   selected, backward_inputs, accum, Grads(det.out, accum))

-----------------------------------------------------------------------------
(* The program: calls of recompute, backward passes, and the RNG use of the *)
(* code around them                                                         *)

Ctxs == {1, 2}

KwargsChoices ==
    { {},
      {<<"preserve_rng_state", TRUE>>},
      {<<"preserve_rng_state", FALSE>>},
      {<<"use_reentrant", TRUE>>},
      {<<"preserve_rng_state", FALSE>>, <<"use_reentrant", TRUE>>} }

GradValues == {1, 2}

\* The inputs the calls are tried with.
AllArgLists == ArgLists(MaxArgs)
AllGradLists == SeqsUpTo(GradValues, MaxGrads)

NoFwd ==
    [op |-> "none", function |-> NoFunction, args |-> <<>>, kwargs |-> {},
     device |-> <<>>, rngBefore |-> 0, rngAtRun |-> NoState, rngAfter |-> 0,
     events |-> <<>>, outcome |-> "none", result |-> NoOutputs, forwards |-> 0,
     tracking |-> <<>>, modeBefore |-> TRUE, modeAfter |-> TRUE]

NoBwd ==
    [op |-> "none", args |-> <<>>, rngBefore |-> 0, rngAtRun |-> NoState,
     rngAfter |-> 0, events |-> <<>>, outcome |-> "none", replayArgs |-> <<>>,
     outputs |-> NoOutputs, roots |-> <<>>, rootGrads |-> <<>>, accum |-> <<>>,
     grads |-> <<>>, calls |-> 0, tracking |-> <<>>, modeBefore |-> TRUE,
     modeAfter |-> TRUE]

\* Two streams of one device, each replaying under swith_rng_state.  A stream
\* is idle, has saved the device state (line 50), has installed its snapshot
\* (line 51), has run its block (line 53), or has restored (line 55); alone
\* and first tell whether the other stream was outside its guard, and had not
\* yet entered it, when this one entered.
Streams == {1, 2}
NoStream ==
    [pc |-> "idle", snap |-> 0, orig |-> 0, observed |-> 0, alone |-> TRUE,
     first |-> FALSE]

\* The parameter-server job of AsyncExecutor: PaddlePSInstance(1, 2) makes
\* every other process a server and the rest workers.
Servers == {<<"server", i>> : i \in 1..NumPairs}
Workers == {<<"worker", i>> : i \in 1..NumPairs}
Nodes == Servers \cup Workers

\* instance.is_first_worker(): the worker of index 0.
IsFirstWorker(n) == n = <<"worker", 1>>

\* The nodes a barrier waits for.
Members(barrier) == IF barrier = "barrier_all" THEN Nodes ELSE Workers
Barriers == {"barrier_all", "barrier_worker"}

\* An init_server that does not wait for the workers to start.
ServerProgramOneBarrier ==
    <<"executor.init_server", "start_server", "set_ip", "barrier_all",
      "gather_ips", "gather_servers">>

\* init_server, lines 204-210, statement by statement.
ServerProgram ==
    <<"executor.init_server", "start_server", "set_ip", "barrier_all",
      "gather_ips", "gather_servers", "barrier_all">>

\* An init_worker that initialises the model without waiting for the others.
InitWorkerProgramOneBarrier ==
    <<"run_startup", "barrier_all", "gather_ips", "executor.init_worker",
      "init_model", "barrier_worker">>

\* init_worker, lines 215-225, statement by statement; init_model stands for
\* the statement 'if is_first_worker(): executor.init_model()'.
InitWorkerProgram ==
    <<"run_startup", "barrier_all", "gather_ips", "executor.init_worker",
      "barrier_all", "init_model", "barrier_worker">>

\* A stop that does not wait for the workers to finish.
StopProgramNoFirstBarrier == <<"stop_server", "barrier_worker">>

\* stop, lines 196-199, statement by statement; stop_server stands for the
\* statement 'if is_first_worker(): executor.stop_server()'.
StopProgram == <<"barrier_worker", "stop_server", "barrier_worker">>

\* A server runs init_server; a worker runs init_worker and later stop.
Program(n) ==
    IF n \in Servers THEN ServerProgram ELSE InitWorkerProgram \o StopProgram

\* pc[n] is the statement node n executes next, waiting[n] tells that it has
\* called the barrier there and is blocked in it; init_model and stop_server
\* list the nodes that executed these steps, in order.
NoPS ==
    [pc |-> [n \in Nodes |-> 1], waiting |-> [n \in Nodes |-> FALSE],
     init_model |-> <<>>, stop_server |-> <<>>]

\* The arguments of AsyncExecutor.run.  A Python value is a record of its
\* kind and content: None, a program or data feed object, a file name or a
\* list of them, a number, a Variable with its name and shape or a list of
\* Variables.
PyNone == [kind |-> "none", val |-> <<>>]
Programs == {PyNone, [kind |-> "program", val |-> <<"main">>]}
DataFeeds == {PyNone, [kind |-> "data_feed", val |-> <<"feed">>]}
FileLists ==
    {PyNone, [kind |-> "str", val |-> <<"a.txt">>],
     [kind |-> "list", val |-> <<"a.txt", "b.txt">>]}
ThreadNums == {[kind |-> "int", val |-> <<2>>], [kind |-> "float", val |-> <<2>>]}
Variables ==
    { [name |-> "acc", shape |-> <<1>>],
      [name |-> "auc", shape |-> <<3, 1>>],
      [name |-> "prob", shape |-> <<3, 2>>] }
Fetches ==
    {PyNone}
    \cup {[kind |-> "variable", val |-> <<v>>] : v \in Variables}
    \cup {[kind |-> "list", val |-> l] : l \in SeqsUpTo(Variables, MaxFetch)}

\* A local name of run: assigned or not.
Unbound == [bound |-> FALSE, val |-> <<>>]
Bound(v) == [bound |-> TRUE, val |-> v]

\* run, lines 142-143: the fetch variables as a list; a single Variable
\* becomes the list of it.
FetchList(fetch) == fetch.val

\* run, lines 135-136: the file names as a list; a single name becomes the
\* list of it.
FileNames(filelist) == filelist.val

\* run, lines 141-144: fetch_var_names is assigned only under
\* 'if fetch is not None'.
FetchVarNames(fetch) ==
    IF fetch.kind # "none"
    THEN Bound([k \in 1..Len(FetchList(fetch)) |-> FetchList(fetch)[k].name])
    ELSE Unbound

\* run, lines 145-151: some fetch variable's last dimension is not 1.
WrongShape(fetch) ==
    /\ fetch.kind # "none"
    /\ \E k \in 1..Len(FetchList(fetch)) :
          LET shape == FetchList(fetch)[k].shape
          IN  shape[Len(shape)] # 1

\* AsyncExecutor.run(program, data_feed, filelist, thread_num, fetch), lines
\* 125-155: how it ends and the calls of executor.run_from_files it makes.
Run(program, data_feed, filelist, thread_num, fetch) ==
    LET files == FileNames(filelist)
        fetch_var_names == FetchVarNames(fetch)
        Raised(error) == [outcome |-> error, run_from_files |-> <<>>]
    IN  IF data_feed.kind = "none" THEN Raised("ValueError")
        ELSE IF filelist.kind = "none" THEN Raised("ValueError")
        ELSE IF thread_num.kind # "int" THEN Raised("TypeError")
        ELSE IF WrongShape(fetch) THEN Raised("AssertionError")
        ELSE IF ~fetch_var_names.bound THEN Raised("UnboundLocalError")
        ELSE [outcome |-> "returned",
              run_from_files |->
                  <<[program |-> IF program.kind = "none" THEN <<"main">> ELSE program.val,
                     filelist |-> files, thread_num |-> thread_num.val,
                     fetch_var_names |-> fetch_var_names.val]>>]

NoRun ==
    [op |-> "none", program |-> PyNone, data_feed |-> PyNone, filelist |-> PyNone,
     thread_num |-> PyNone, fetch |-> PyNone, outcome |-> "none",
     run_from_files |-> <<>>]

\* The tracer of the surrounding code records gradients, and so does a newly
\* made one.
DefaultTracer == [has_grad |-> TRUE, fresh |-> TRUE]
Tracers == [has_grad : BOOLEAN, fresh : BOOLEAN]

\* The last guard step: entering (the state that was to be installed) or
\* exiting (the state the device had when that guard was entered, and
\* whether the block had raised).
NoGuardLog == [op |-> "none", expect |-> 0, failed |-> FALSE]

InitCalls ==
    /\ rng = 0
    /\ device \in Devices
    /\ objs = [c \in Ctxs |-> <<>>]
    /\ ctx = [c \in Ctxs |-> NoCtx]
    /\ fwd = [c \in Ctxs |-> NoFwd]
    /\ bwd = [c \in Ctxs |-> NoBwd]
    /\ ambient = 0
    /\ stack = <<>>
    /\ raising = FALSE
    /\ guardLog = NoGuardLog

Init ==
    /\ InitCalls
    /\ tracer = DefaultTracer
    /\ streams = [s \in Streams |-> NoStream]
    /\ ps = NoPS
    /\ runObs = NoRun

\* The training script calls recompute(function, *args, **kwargs).
Recompute(c, function, args, kwargs) ==
    /\ fwd[c].op = "none"
    /\ \E call \in {RecomputeCall(function, args, kwargs, rng, device, tracer.has_grad)} :
           /\ rng' = call.rng
           /\ tracer' = [tracer EXCEPT !.has_grad = call.mode]
           /\ objs' = [objs EXCEPT ![c] = args]
           /\ ctx' = [ctx EXCEPT ![c] = call.ctx]
           /\ fwd' = [fwd EXCEPT ![c] =
                        [op |-> "recompute", function |-> function, args |-> args,
                         kwargs |-> kwargs, device |-> device, rngBefore |-> rng,
                         rngAtRun |-> call.rngAtRun, rngAfter |-> call.rng,
                         events |-> call.events, outcome |-> call.outcome,
                         result |-> call.result, forwards |-> call.forwards,
                         tracking |-> call.tracking,
                         modeBefore |-> tracer.has_grad, modeAfter |-> call.mode]]
    /\ UNCHANGED <<device, bwd, ambient, stack, raising, guardLog, streams, ps, runObs>>

\* The autograd engine runs the backward of a call whose forward returned,
\* with the gradients args of its outputs.
RunBackward(c, args) ==
    /\ fwd[c].outcome = "returned"
    /\ bwd[c].calls < MaxBackward
    /\ \E call \in {Backward(ctx[c], objs[c], args, rng, tracer.has_grad, tracer.fresh)} :
           /\ rng' = call.rng
           /\ ctx' = [ctx EXCEPT ![c] = call.ctx]
           /\ tracer' = [tracer EXCEPT !.has_grad = call.mode]
           /\ objs' = [objs EXCEPT ![c] = call.heap]
           /\ bwd' = [bwd EXCEPT ![c] =
                        [op |-> "backward", args |-> args, rngBefore |-> rng,
                         rngAtRun |-> call.rngAtRun, rngAfter |-> call.rng,
                         events |-> call.events, outcome |-> call.outcome,
                         replayArgs |-> call.replayArgs, outputs |-> call.outputs,
                         roots |-> call.roots, rootGrads |-> call.rootGrads,
                         accum |-> call.accum,
                         grads |-> call.grads, calls |-> bwd[c].calls + 1,
                         tracking |-> call.tracking,
                         modeBefore |-> tracer.has_grad, modeAfter |-> call.mode]]
    /\ UNCHANGED <<device, fwd, ambient, stack, raising, guardLog, streams, ps, runObs>>

\* Code outside the recompute block draws from the device generator.
AmbientDraw ==
    /\ ambient < MaxAmbient
    /\ rng' = Draw(rng).next
    /\ ambient' = ambient + 1
    /\ UNCHANGED <<device, objs, ctx, fwd, bwd, stack, raising, guardLog, tracer, streams, ps, runObs>>

CallRecompute(c) ==
    /\ fwd[c].op = "none"
    /\ \E function \in Functions, args \in AllArgLists, kwargs \in KwargsChoices :
          Recompute(c, function, args, kwargs)

CallBackward(c) ==
    /\ fwd[c].outcome = "returned"
    /\ bwd[c].op = "none"
    /\ \E args \in AllGradLists : RunBackward(c, args)

\* One call of recompute and its backward pass, over every function, argument
\* list, keyword set and incoming gradient list.
Next ==
    \/ CallRecompute(1)
    \/ CallBackward(1)

Spec == Init /\ [][Next]_vars

-----------------------------------------------------------------------------
(* Two streams run RNG-preserving replays on the one device generator; the  *)
(* statements of swith_rng_state of one stream interleave with the other's  *)

Other(s) == CHOOSE t \in Streams : t # s

\* swith_rng_state(rng_state), line 50: orig = get_cuda_rng_state().
StreamSave(s, rng_state) ==
    /\ streams[s].pc = "idle"
    /\ streams' = [streams EXCEPT ![s] =
                     [pc |-> "saved", snap |-> rng_state,
                      orig |-> SwithEnter(rng_state, rng).orig, observed |-> 0,
                      alone |-> streams[Other(s)].pc \in {"idle", "done"},
                      first |-> streams[Other(s)].pc = "idle"]]
    /\ UNCHANGED <<rng, device, objs, ctx, fwd, bwd, ambient, stack, raising, guardLog, tracer, ps, runObs>>

\* swith_rng_state, line 51: set_cuda_rng_state(rng_state).
StreamInstall(s) ==
    /\ streams[s].pc = "saved"
    /\ rng' = SwithEnter(streams[s].snap, streams[s].orig).installed
    /\ streams' = [streams EXCEPT ![s].pc = "installed"]
    /\ UNCHANGED <<device, objs, ctx, fwd, bwd, ambient, stack, raising, guardLog, tracer, ps, runObs>>

\* backward, line 122: the guarded run_function reads the generator and draws
\* from it.
StreamRun(s) ==
    /\ streams[s].pc = "installed"
    /\ rng' = Draw(rng).next
    /\ streams' = [streams EXCEPT ![s].pc = "ran", ![s].observed = rng]
    /\ UNCHANGED <<device, objs, ctx, fwd, bwd, ambient, stack, raising, guardLog, tracer, ps, runObs>>

\* swith_rng_state, line 55: set_cuda_rng_state(orig).
StreamRestore(s) ==
    /\ streams[s].pc = "ran"
    /\ rng' = SwithExit(streams[s].orig, rng, FALSE)
    /\ streams' = [streams EXCEPT ![s].pc = "done"]
    /\ UNCHANGED <<device, objs, ctx, fwd, bwd, ambient, stack, raising, guardLog, tracer, ps, runObs>>

NextConc ==
    \/ \E s \in Streams, rng_state \in 0..MaxGuardRng : StreamSave(s, rng_state)
    \/ \E s \in Streams : StreamInstall(s)
    \/ \E s \in Streams : StreamRun(s)
    \/ \E s \in Streams : StreamRestore(s)

SpecConc == Init /\ [][NextConc]_vars

-----------------------------------------------------------------------------
(* The parameter-server job: every server runs init_server, every worker    *)
(* runs init_worker and then stop, each process at its own pace             *)

Returned(n) == ps.pc[n] > Len(Program(n))
Current(n) == Program(n)[ps.pc[n]]

\* How many times node n has called the barrier so far.
RECURSIVE CallsBefore(_, _, _)
CallsBefore(prog, barrier, i) ==
    IF i = 0 THEN 0
    ELSE CallsBefore(prog, barrier, i - 1) + (IF prog[i] = barrier THEN 1 ELSE 0)

Arrived(n, barrier) ==
    CallsBefore(Program(n), barrier, ps.pc[n] - 1)
    + (IF ~Returned(n) /\ Current(n) = barrier /\ ps.waiting[n] THEN 1 ELSE 0)

\* A node executes its next statement, other than a barrier.
Statement(n) ==
    /\ ~Returned(n)
    /\ Current(n) \notin Barriers
    /\ ps' = [ps EXCEPT
                !.pc[n] = @ + 1,
                !.init_model = IF Current(n) = "init_model" /\ IsFirstWorker(n)
                               THEN Append(@, n) ELSE @,
                !.stop_server = IF Current(n) = "stop_server" /\ IsFirstWorker(n)
                                THEN Append(@, n) ELSE @]
    /\ UNCHANGED <<rng, device, objs, ctx, fwd, bwd, ambient, stack, raising, guardLog, tracer, streams, runObs>>

\* A node calls instance.barrier_all() or instance.barrier_worker().
BarrierCall(n) ==
    /\ ~Returned(n)
    /\ Current(n) \in Barriers
    /\ ~ps.waiting[n]
    /\ ps' = [ps EXCEPT !.waiting[n] = TRUE]
    /\ UNCHANGED <<rng, device, objs, ctx, fwd, bwd, ambient, stack, raising, guardLog, tracer, streams, runObs>>

\* The barrier a node waits in lets it go once every member has called it as
\* often as the node has.
BarrierRelease(n) ==
    /\ ~Returned(n)
    /\ Current(n) \in Barriers
    /\ ps.waiting[n]
    /\ \A member \in Members(Current(n)) :
          Arrived(member, Current(n)) >= Arrived(n, Current(n))
    /\ ps' = [ps EXCEPT !.pc[n] = @ + 1, !.waiting[n] = FALSE]
    /\ UNCHANGED <<rng, device, objs, ctx, fwd, bwd, ambient, stack, raising, guardLog, tracer, streams, runObs>>

NodeStep(n) == Statement(n) \/ BarrierCall(n) \/ BarrierRelease(n)

NextPS ==
    \/ \E n \in Nodes : Statement(n)
    \/ \E n \in Nodes : BarrierCall(n)
    \/ \E n \in Nodes : BarrierRelease(n)

\* AsyncExecutor.__init__: the executor runs on the CPU only.
InitPS ==
    /\ Init
    /\ device = <<"c", "p", "u">>

SpecPS == InitPS /\ [][NextPS]_vars

\* Every process keeps running: a node that can take a step takes one.
SpecPSFair == SpecPS /\ \A n \in Nodes : WF_vars(NodeStep(n))

-----------------------------------------------------------------------------
(* Calls of AsyncExecutor.run over its arguments                             *)

AsyncRun(program, data_feed, filelist, thread_num, fetch) ==
    /\ LET call == Run(program, data_feed, filelist, thread_num, fetch)
       IN  runObs' = [op |-> "run", program |-> program, data_feed |-> data_feed,
                      filelist |-> filelist, thread_num |-> thread_num,
                      fetch |-> fetch, outcome |-> call.outcome,
                      run_from_files |-> call.run_from_files]
    /\ UNCHANGED <<rng, device, objs, ctx, fwd, bwd, ambient, stack, raising, guardLog, tracer, streams, ps>>

NextRun ==
    \E program \in Programs, data_feed \in DataFeeds, filelist \in FileLists,
       thread_num \in ThreadNums, fetch \in Fetches :
        AsyncRun(program, data_feed, filelist, thread_num, fetch)

SpecRun == InitPS /\ [][NextRun]_vars

-----------------------------------------------------------------------------
(* One recompute context under either tracking mode of the surrounding code, *)
(* whose backward runs more than once (a graph retained for a second pass)   *)

CtxArgLists ==
    { <<>>,
      <<Tensor(1, 1, FALSE, TRUE)>>,
      <<NoneVal, Tensor(2, 2, FALSE, TRUE)>>,
      <<Tensor(1, 1, TRUE, TRUE), IntVal(2), Tensor(3, 3, FALSE, TRUE)>> }
CtxKwargs == { {}, {<<"preserve_rng_state", FALSE>>} }
CtxGradLists == { <<>>, <<1>>, <<1, 2>> }

InitCtx ==
    /\ InitCalls
    /\ tracer \in Tracers
    /\ streams = [s \in Streams |-> NoStream]
    /\ ps = NoPS
    /\ runObs = NoRun

CtxRecompute(c) ==
    /\ fwd[c].op = "none"
    /\ \E function \in Functions, args \in CtxArgLists, kwargs \in CtxKwargs :
          Recompute(c, function, args, kwargs)

CtxBackward(c) ==
    /\ fwd[c].outcome = "returned"
    /\ bwd[c].calls < MaxBackward
    /\ \E args \in CtxGradLists : RunBackward(c, args)

\* The surrounding code enters or leaves a no-grad region of its own.
ToggleGrad ==
    /\ tracer' = [tracer EXCEPT !.has_grad = ~tracer.has_grad]
    /\ UNCHANGED <<rng, device, objs, ctx, fwd, bwd, ambient, stack, raising, guardLog, streams, ps, runObs>>

NextCtx ==
    \/ CtxRecompute(1)
    \/ CtxBackward(1)
    \/ ToggleGrad

SpecCtx == InitCtx /\ [][NextCtx]_vars

-----------------------------------------------------------------------------
(* Two recompute contexts whose forwards and backwards interleave with each  *)
(* other and with the RNG draws of the surrounding code                      *)

RngFunctions == {f \in Functions : f.name \in {"scale", "dropout", "raise"}}
RngArgLists == { <<Tensor(1, 1, FALSE, TRUE)>> }
RngKwargs == { {}, {<<"preserve_rng_state", FALSE>>} }
RngGradLists == { <<1>> }

RngRecompute(c) ==
    /\ fwd[c].op = "none"
    /\ \E function \in RngFunctions, args \in RngArgLists, kwargs \in RngKwargs :
          Recompute(c, function, args, kwargs)

RngBackward(c) ==
    /\ fwd[c].outcome = "returned"
    /\ bwd[c].op = "none"
    /\ \E args \in RngGradLists : RunBackward(c, args)

NextRng ==
    \/ \E c \in Ctxs : RngRecompute(c)
    \/ \E c \in Ctxs : RngBackward(c)
    \/ AmbientDraw

SpecRng == Init /\ [][NextRng]_vars

-----------------------------------------------------------------------------
(* The RNG guard swith_rng_state on its own: guards nest, blocks draw from   *)
(* the generator, and a block may raise                                      *)

\* with swith_rng_state(s): is entered.
GuardEnter(s) ==
    /\ ~raising
    /\ Len(stack) < MaxDepth
    /\ LET g == SwithEnter(s, rng)
       IN  /\ stack' = <<[orig |-> g.orig, entry |-> rng]>> \o stack
           /\ rng' = g.installed
    /\ guardLog' = [op |-> "enter", expect |-> s, failed |-> FALSE]
    /\ UNCHANGED <<device, objs, ctx, fwd, bwd, ambient, raising, tracer, streams, ps, runObs>>

\* The running block (or the code outside every guard) draws a random value.
BlockDraw ==
    /\ ~raising
    /\ rng < MaxGuardRng
    /\ rng' = Draw(rng).next
    /\ guardLog' = [op |-> "draw", expect |-> rng, failed |-> FALSE]
    /\ UNCHANGED <<device, objs, ctx, fwd, bwd, ambient, stack, raising, tracer, streams, ps, runObs>>

\* The innermost block raises.
BlockRaise ==
    /\ ~raising
    /\ stack # <<>>
    /\ raising' = TRUE
    /\ guardLog' = [op |-> "raise", expect |-> rng, failed |-> TRUE]
    /\ UNCHANGED <<rng, device, objs, ctx, fwd, bwd, ambient, stack, tracer, streams, ps, runObs>>

\* Control leaves the innermost guard: its block returned, or the failure
\* raised in it passes through the finally clause and goes on to the
\* enclosing block.
GuardExit ==
    /\ stack # <<>>
    /\ rng' = SwithExit(Head(stack).orig, rng, raising)
    /\ stack' = Tail(stack)
    /\ guardLog' = [op |-> "exit", expect |-> Head(stack).entry, failed |-> raising]
    /\ UNCHANGED <<device, objs, ctx, fwd, bwd, ambient, raising, tracer, streams, ps, runObs>>

\* An except clause of an enclosing block catches the failure after it has
\* left a guard.
BlockCatch ==
    /\ raising
    /\ guardLog.op = "exit"
    /\ raising' = FALSE
    /\ guardLog' = [op |-> "catch", expect |-> rng, failed |-> FALSE]
    /\ UNCHANGED <<rng, device, objs, ctx, fwd, bwd, ambient, stack, tracer, streams, ps, runObs>>

NextGuard ==
    \/ \E s \in 0..MaxGuardRng : GuardEnter(s)
    \/ BlockDraw
    \/ BlockRaise
    \/ GuardExit
    \/ BlockCatch

SpecGuard == Init /\ [][NextGuard]_vars

-----------------------------------------------------------------------------
(* Claims *)

HasTrackedTensor(args) ==
    \E i \in 1..Len(args) : IsTensor(args[i]) /\ ~args[i].stop_gradient

\* The reference of C1: run_function run once directly on args under gradient
\* tracking from RNG state r, then gradients propagated from every tracked
\* output with the incoming gradient of that output.
RECURSIVE TrackedOutputs(_, _)
TrackedOutputs(items, k) ==
    IF k > Len(items) THEN <<>>
    ELSE (IF ~items[k].stop_gradient THEN <<k>> ELSE <<>>) \o TrackedOutputs(items, k + 1)

DirectGrads(function, args, r, grads) ==
    LET run   == RunFunction(function, args, r, TRUE)
        sel   == TrackedOutputs(run.items, 1)
        accum == AutogradBackward([k \in 1..Len(sel) |-> run.items[sel[k]]],
                                  [k \in 1..Len(sel) |-> grads[sel[k]]], args)
    IN  Grads(args, accum)

\* C1: gradient equivalence.  Whenever backward is run for a call with at
\* least one gradient-tracked tensor argument, with one incoming gradient per
\* output, and the direct run of run_function from the RNG state of the replay
\* returns with at least one tracked output, backward returns gradients and
\* they equal the gradients of that direct run.
GradientEquivalence ==
    \A c \in Ctxs :
        LET direct == RunFunction(fwd[c].function, fwd[c].args,
                                  bwd[c].rngAtRun.state, TRUE)
        IN  (/\ bwd[c].op = "backward"
             /\ HasTrackedTensor(fwd[c].args)
             /\ ~direct.raised
             /\ Len(bwd[c].args) = Len(direct.items)
             /\ TrackedOutputs(direct.items, 1) # <<>>)
            => /\ bwd[c].outcome = "returned"
               /\ bwd[c].grads = DirectGrads(fwd[c].function, fwd[c].args,
                                             bwd[c].rngAtRun.state, bwd[c].args)

\* C2: RNG replay.  Whenever the backward of a call made with
\* preserve_rng_state = TRUE runs, whatever drew from the device generator
\* since its forward (the surrounding code, the other context's forward and
\* backward), run_function starts the replay from the RNG state from which it
\* started in the forward.
RngReplay ==
    \A c \in Ctxs :
        (bwd[c].op = "backward" /\ ctx[c].preserve_rng_state)
        => /\ fwd[c].rngAtRun.set
           /\ bwd[c].rngAtRun = fwd[c].rngAtRun

\* A preserving dropout call whose backward ran after the other context's
\* forward had drawn from the generator in between.
RngReplayWitness ==
    \E c, d \in Ctxs :
        /\ c # d
        /\ bwd[c].op = "backward"
        /\ ctx[c].preserve_rng_state
        /\ fwd[c].function.draws > 0
        /\ fwd[d].op = "recompute"
        /\ fwd[d].rngBefore >= fwd[c].rngAfter
        /\ fwd[d].rngAfter > fwd[d].rngBefore
        /\ fwd[d].rngAfter <= bwd[c].rngBefore
        /\ bwd[c].rngBefore # fwd[c].rngAtRun.state

\* C3 as stated: with preserve_rng_state = TRUE and a run_function that draws,
\* the device RNG state after forward equals the state before forward, and
\* the state after backward equals the state before backward.
AmbientRngRestored ==
    \A c \in Ctxs :
        /\ (/\ fwd[c].outcome = "returned"
            /\ ctx[c].preserve_rng_state
            /\ fwd[c].function.draws > 0)
           => fwd[c].rngAfter = fwd[c].rngBefore
        /\ (/\ bwd[c].op = "backward"
            /\ ctx[c].preserve_rng_state
            /\ fwd[c].function.draws > 0)
           => bwd[c].rngAfter = bwd[c].rngBefore

\* C3 as amended: backward restores the device RNG state it found; forward
\* does not restore: it leaves the state run_function left, the state before
\* the call advanced by the draws of run_function.
AmbientRngAfterCalls ==
    \A c \in Ctxs :
        /\ (/\ fwd[c].outcome \in {"returned", "RunFunctionError"}
            /\ ctx[c].preserve_rng_state
            /\ fwd[c].function.draws > 0)
           => /\ fwd[c].rngAfter = DrawN(fwd[c].rngBefore, fwd[c].function.draws)
              /\ fwd[c].rngAfter # fwd[c].rngBefore
        /\ (/\ bwd[c].op = "backward"
            /\ ctx[c].preserve_rng_state
            /\ fwd[c].function.draws > 0)
           => bwd[c].rngAfter = bwd[c].rngBefore

\* A preserving backward whose replay drew from a state other than the one
\* the device had when backward was called.
AmbientRngWitness ==
    \E c \in Ctxs :
        /\ bwd[c].op = "backward"
        /\ ctx[c].preserve_rng_state
        /\ fwd[c].function.draws > 0
        /\ bwd[c].rngAtRun.state # bwd[c].rngBefore
        /\ fwd[c].rngAfter # fwd[c].rngBefore

\* C4: the RNG guard.  Entering swith_rng_state(s) leaves the device in state
\* s; leaving a guard, by return or by a failure raised in its block, leaves
\* the device in the state it had when that guard was entered (for a nested
\* guard, the state the enclosing block had reached), and a failure is still
\* propagating once the state has been restored.
GuardRestores ==
    /\ guardLog.op = "enter" => rng = guardLog.expect
    /\ guardLog.op = "exit" =>
          /\ rng = guardLog.expect
          /\ guardLog.failed => raising

\* A failure leaves a nested guard whose block had drawn: the device is back
\* in the state the enclosing block had reached, which is neither the state
\* before the outer guard nor the state the inner block left.
GuardRestoresWitness ==
    /\ guardLog.op = "exit"
    /\ guardLog.failed
    /\ raising
    /\ Len(stack) = 1
    /\ rng = guardLog.expect
    /\ rng # Head(stack).entry

Occurs(e, events) == \E i \in 1..Len(events) : events[i] = e
Count(e, events) == Cardinality({i \in 1..Len(events) : events[i] = e})

\* A GPU-class device name: "gpu:" followed by the device number.
GpuClass(dev) == Len(dev) > 4 /\ SubSeq(dev, 1, 4) = <<"g", "p", "u", ":">>

\* C5: device precondition.  A forward with preserve_rng_state = TRUE on a
\* device that is not GPU-class fails with the unsupported-device error
\* without having run run_function, captured an RNG state or touched the
\* generator; a forward with preserve_rng_state = FALSE never asks for the
\* device and reaches run_function on every device.
DevicePrecondition ==
    \A c \in Ctxs :
        fwd[c].forwards = 1 =>
            /\ (ctx[c].preserve_rng_state /\ ~GpuClass(fwd[c].device))
               => /\ fwd[c].outcome = "UnsupportedDeviceError"
                  /\ ~Occurs("run_function", fwd[c].events)
                  /\ ~Occurs("get_cuda_rng_state", fwd[c].events)
                  /\ ~ctx[c].fw_cuda_rng_state.set
                  /\ fwd[c].rngAfter = fwd[c].rngBefore
            /\ ~ctx[c].preserve_rng_state
               => /\ ~Occurs("get_device", fwd[c].events)
                  /\ Count("run_function", fwd[c].events) = 1
                  /\ fwd[c].outcome # "UnsupportedDeviceError"

\* A preserving forward was refused on the device "xpu:0", after the
\* arguments had been saved.
DevicePreconditionWitness ==
    \E c \in Ctxs :
        /\ fwd[c].forwards = 1
        /\ ctx[c].preserve_rng_state
        /\ fwd[c].device = <<"x", "p", "u", ":", "0">>
        /\ fwd[c].outcome = "UnsupportedDeviceError"
        /\ Occurs("save_for_backward", fwd[c].events)

\* C6: order preservation.  A backward that returns hands back exactly one
\* gradient per tensor argument of the forward call, as many as
\* tensor_indices has entries, and the k-th is the accumulator of the detached
\* copy of the k-th tensor argument.
OrderPreservation ==
    \A c \in Ctxs :
        bwd[c].outcome = "returned" =>
            LET tpos == TensorPositions(fwd[c].args)
            IN  /\ Len(bwd[c].grads) = Len(tpos)
                /\ Len(bwd[c].grads) = Len(ctx[c].tensor_indices)
                /\ \A k \in 1..Len(tpos) :
                      \E i \in 1..Len(bwd[c].replayArgs) :
                          /\ IsTensor(bwd[c].replayArgs[i])
                          /\ bwd[c].replayArgs[i].storage = fwd[c].args[tpos[k]].storage
                          /\ bwd[c].grads[k] = bwd[c].accum[i]

\* A backward returned for the arguments (scalar, tensor, tensor), both tensors
\* tracked, with two different gradients.
OrderPreservationWitness ==
    \E c \in Ctxs :
        /\ bwd[c].outcome = "returned"
        /\ Len(fwd[c].args) = 3
        /\ ~IsTensor(fwd[c].args[1])
        /\ TensorPositions(fwd[c].args) = <<2, 3>>
        /\ Len(bwd[c].grads) = 2
        /\ bwd[c].grads[1].has /\ bwd[c].grads[2].has
        /\ bwd[c].grads[1] # bwd[c].grads[2]

\* C7: replay arguments round-trip.  The arguments run_function is replayed
\* with are as many as the forward arguments; a non-tensor position holds the
\* original value; a tensor position holds a tensor cut from the graph, on the
\* storage of the tensor given there, with its stop_gradient flag; and the
\* caller's objects are as they were given.
ReplayArguments ==
    \A c \in Ctxs :
        bwd[c].op = "backward" =>
            /\ Len(bwd[c].replayArgs) = Len(fwd[c].args)
            /\ \A i \in 1..Len(fwd[c].args) :
                  IF IsTensor(fwd[c].args[i])
                  THEN /\ IsTensor(bwd[c].replayArgs[i])
                       /\ ~bwd[c].replayArgs[i].attached
                       /\ bwd[c].replayArgs[i].storage = fwd[c].args[i].storage
                       /\ bwd[c].replayArgs[i].stop_gradient = fwd[c].args[i].stop_gradient
                  ELSE bwd[c].replayArgs[i] = fwd[c].args[i]
            /\ objs[c] = fwd[c].args

\* A replay with the arguments (None, tracked tensor, untracked tensor).
ReplayArgumentsWitness ==
    \E c \in Ctxs :
        /\ bwd[c].op = "backward"
        /\ Len(fwd[c].args) = 3
        /\ fwd[c].args[1] = NoneVal
        /\ IsTensor(fwd[c].args[2]) /\ ~fwd[c].args[2].stop_gradient
        /\ IsTensor(fwd[c].args[3]) /\ fwd[c].args[3].stop_gradient
        /\ bwd[c].replayArgs[1] = NoneVal

\* C8: the public entry point.  With a keyword other than preserve_rng_state,
\* recompute fails with the invalid-argument error and forward is not invoked;
\* otherwise forward is invoked once, with the flag given or TRUE when absent,
\* and recompute ends as forward ends, returning what forward returns.
PublicEntryPoint ==
    \A c \in Ctxs :
        fwd[c].op = "recompute" =>
            LET supplied == {kv \in fwd[c].kwargs : kv[1] = "preserve_rng_state"}
                flag == IF supplied = {} THEN TRUE ELSE (CHOOSE kv \in supplied : TRUE)[2]
                call == Forward(fwd[c].function, flag, fwd[c].args,
                                fwd[c].rngBefore, fwd[c].device, fwd[c].modeBefore)
            IN  IF \E kv \in fwd[c].kwargs : kv[1] # "preserve_rng_state"
                THEN /\ fwd[c].outcome = "InvalidArgumentError"
                     /\ fwd[c].forwards = 0
                     /\ fwd[c].events = <<>>
                     /\ ctx[c] = NoCtx
                     /\ fwd[c].rngAfter = fwd[c].rngBefore
                ELSE /\ fwd[c].forwards = 1
                     /\ ctx[c].preserve_rng_state = flag
                     /\ fwd[c].outcome = call.outcome
                     /\ fwd[c].result = call.result

\* recompute was called without the flag on a GPU and returned the output of
\* a forward that captured the RNG state.
PublicEntryPointWitness ==
    \E c \in Ctxs :
        /\ fwd[c].op = "recompute"
        /\ fwd[c].kwargs = {}
        /\ fwd[c].outcome = "returned"
        /\ ctx[c].fw_cuda_rng_state.set
        /\ fwd[c].result.items # <<>>

\* C9: output/gradient count check.  When the replay returned and the number
\* of its outputs (a bare tensor counting as one) differs from the number of
\* incoming gradients, backward fails with the shape-mismatch error, the
\* local backward driver is not invoked and no gradient is returned.
OutputCountCheck ==
    \A c \in Ctxs :
        (/\ bwd[c].op = "backward"
         /\ bwd[c].outcome # "RunFunctionError"
         /\ Len(bwd[c].outputs.items) # Len(bwd[c].args))
        => /\ bwd[c].outcome = "ShapeMismatchError"
           /\ ~Occurs("autograd_backward", bwd[c].events)
           /\ bwd[c].roots = <<>>
           /\ bwd[c].grads = <<>>

\* A replay returned two outputs for one incoming gradient.
OutputCountCheckWitness ==
    \E c \in Ctxs :
        /\ bwd[c].outcome = "ShapeMismatchError"
        /\ Len(bwd[c].outputs.items) = 2
        /\ Len(bwd[c].args) = 1

\* C10 as stated: forward logs the diagnostic exactly when no tensor argument
\* is tracked, and then still saves the context, runs run_function once and
\* returns its output (for a run_function that does not itself raise).
AdvisoryDiagnostic ==
    \A c \in Ctxs :
        fwd[c].forwards = 1 =>
            /\ Occurs("diagnostic", fwd[c].events) <=> ~HasTrackedTensor(fwd[c].args)
            /\ (Occurs("diagnostic", fwd[c].events) /\ ~fwd[c].function.raises)
               => /\ Occurs("save_for_backward", fwd[c].events)
                  /\ Count("run_function", fwd[c].events) = 1
                  /\ fwd[c].outcome = "returned"

\* C10 as amended: the same, except that a forward with
\* preserve_rng_state = TRUE on a device that is not GPU-class fails the
\* device check after the diagnostic and the save, without running
\* run_function.
AdvisoryDiagnosticUnlessUnsupported ==
    \A c \in Ctxs :
        fwd[c].forwards = 1 =>
            /\ Occurs("diagnostic", fwd[c].events) <=> ~HasTrackedTensor(fwd[c].args)
            /\ Count("diagnostic", fwd[c].events) <= 1
            /\ (Occurs("diagnostic", fwd[c].events) /\ ~fwd[c].function.raises)
               => /\ Occurs("save_for_backward", fwd[c].events)
                  /\ IF ctx[c].preserve_rng_state /\ ~GpuClass(fwd[c].device)
                     THEN /\ fwd[c].outcome = "UnsupportedDeviceError"
                          /\ ~Occurs("run_function", fwd[c].events)
                     ELSE /\ Count("run_function", fwd[c].events) = 1
                          /\ fwd[c].outcome = "returned"
                          /\ fwd[c].result =
                                Outputs(RunFunction(fwd[c].function, fwd[c].args,
                                                    fwd[c].rngBefore, FALSE))

\* A forward without any tensor argument logged the diagnostic and returned
\* the output of run_function.
AdvisoryDiagnosticWitness ==
    \E c \in Ctxs :
        /\ fwd[c].forwards = 1
        /\ fwd[c].args # <<>>
        /\ TensorPositions(fwd[c].args) = <<>>
        /\ Occurs("diagnostic", fwd[c].events)
        /\ fwd[c].outcome = "returned"
        /\ fwd[c].result.items # <<>>

\* C11: output selection and pairing.  When the replay returned as many
\* outputs as there are incoming gradients and at least one output is
\* gradient-tracked, backward calls the local backward driver with exactly
\* the tracked outputs, in output order, each with the incoming gradient of
\* its own position.
SelectionAndPairing ==
    \A c \in Ctxs :
        LET items == bwd[c].outputs.items
            sel   == TrackedOutputs(items, 1)
        IN  (/\ bwd[c].op = "backward"
             /\ bwd[c].outcome # "RunFunctionError"
             /\ Len(items) = Len(bwd[c].args)
             /\ sel # <<>>)
            => /\ Count("autograd_backward", bwd[c].events) = 1
               /\ bwd[c].roots = [k \in 1..Len(sel) |-> items[sel[k]]]
               /\ bwd[c].rootGrads = [k \in 1..Len(sel) |-> bwd[c].args[sel[k]]]

\* C12: no-gradient failure.  When the replay returned and none of its outputs
\* is a gradient-tracked tensor, backward fails without calling the local
\* backward driver and without returning gradients: with the shape-mismatch
\* error when the counts differ (the count check comes first), and otherwise
\* with the no-gradient-required error, whatever the number of incoming
\* gradients (the selected-count check comes later).
NoGradientFailure ==
    \A c \in Ctxs :
        (/\ bwd[c].op = "backward"
         /\ bwd[c].outcome # "RunFunctionError"
         /\ TrackedOutputs(bwd[c].outputs.items, 1) = <<>>)
        => /\ bwd[c].outcome =
                 IF Len(bwd[c].outputs.items) # Len(bwd[c].args)
                 THEN "ShapeMismatchError" ELSE "NoGradientRequiredError"
           /\ ~Occurs("autograd_backward", bwd[c].events)
           /\ bwd[c].roots = <<>>
           /\ bwd[c].grads = <<>>

\* A replay of a call with a tracked tensor argument returned one untracked
\* output for one incoming gradient, and backward failed for want of a
\* gradient-tracked output.
NoGradientFailureWitness ==
    \E c \in Ctxs :
        /\ bwd[c].outcome = "NoGradientRequiredError"
        /\ HasTrackedTensor(fwd[c].args)
        /\ Len(bwd[c].outputs.items) = 1
        /\ Len(bwd[c].args) = 1

\* C15: context well-formedness.  After a forward call with N arguments,
\* ctx.inputs has N entries, ctx.tensor_indices lists exactly the positions
\* of the tensor arguments in increasing order, ctx.inputs holds None at
\* those positions and the original value elsewhere, as many tensors are
\* saved as positions are listed, and the RNG snapshot is set exactly when
\* preserve_rng_state is true and the device is GPU-class.
ContextWellFormed ==
    \A c \in Ctxs :
        fwd[c].forwards = 1 =>
            LET args == fwd[c].args
                idx  == ctx[c].tensor_indices
            IN  /\ Len(ctx[c].inputs) = Len(args)
                /\ \A k \in 1..Len(idx) : idx[k] \in 1..Len(args)
                /\ \A k \in 1..(Len(idx) - 1) : idx[k] < idx[k + 1]
                /\ {idx[k] : k \in 1..Len(idx)} = {i \in 1..Len(args) : IsTensor(args[i])}
                /\ \A i \in 1..Len(args) :
                      ctx[c].inputs[i] = IF IsTensor(args[i]) THEN NoneVal ELSE args[i]
                /\ Len(ctx[c].saved) = Len(idx)
                /\ \A k \in 1..Len(idx) : objs[c][ctx[c].saved[k]] = args[idx[k]]
                /\ ctx[c].fw_cuda_rng_state.set
                      <=> (ctx[c].preserve_rng_state /\ GpuClass(fwd[c].device))

\* A forward on a GPU saved the context of the arguments (2, tensor, tensor)
\* with the RNG snapshot.
ContextWellFormedWitness ==
    \E c \in Ctxs :
        /\ fwd[c].forwards = 1
        /\ Len(fwd[c].args) = 3
        /\ fwd[c].args[1] = IntVal(2)
        /\ ctx[c].tensor_indices = <<2, 3>>
        /\ ctx[c].fw_cuda_rng_state.set

\* C13: tracking-mode override.  forward runs run_function with gradient
\* tracking off, the replay in backward runs it with tracking on, whatever
\* the mode of the surrounding code and of a new tracer; and when forward or
\* backward ends, by returning or by failing, the mode of the surrounding
\* code is what it was before the call.
TrackingOverride ==
    \A c \in Ctxs :
        /\ fwd[c].op = "recompute" =>
              /\ fwd[c].modeAfter = fwd[c].modeBefore
              /\ Occurs("run_function", fwd[c].events) => fwd[c].tracking = <<FALSE>>
        /\ bwd[c].op = "backward" =>
              /\ bwd[c].modeAfter = bwd[c].modeBefore
              /\ bwd[c].tracking = <<TRUE>>

\* A forward called with tracking on was replayed by a backward called with
\* tracking off, under a runtime whose new tracers do not track, and the
\* replay produced gradients.
TrackingOverrideWitness ==
    \E c \in Ctxs :
        /\ fwd[c].modeBefore
        /\ fwd[c].tracking = <<FALSE>>
        /\ bwd[c].op = "backward"
        /\ ~bwd[c].modeBefore
        /\ ~tracer.fresh
        /\ ~tracer.has_grad
        /\ bwd[c].outcome = "returned"

\* C14: the context is read-only in backward.  A backward call, returning or
\* failing, leaves every field of its context as it found it, so a further
\* backward on the context starts from the same context.
ContextReadOnly ==
    [][\A c \in Ctxs : bwd'[c].calls # bwd[c].calls => ctx'[c] = ctx[c]]_vars

\* A second backward on a context with saved tensors and an RNG snapshot
\* has returned.
ContextReadOnlyWitness ==
    \E c \in Ctxs :
        /\ bwd[c].calls = 2
        /\ bwd[c].outcome = "returned"
        /\ ctx[c].tensor_indices # <<>>
        /\ ctx[c].fw_cuda_rng_state.set

\* The device state before either stream entered its guard.
EntryState == streams[CHOOSE s \in Streams : streams[s].first].orig

\* C16: concurrent use of the guard.  Two streams replay under
\* swith_rng_state on one device generator.  As long as each guard is entered
\* while the other stream is outside its own, every guarded run_function
\* starts from its own snapshot and the device state after both guards is the
\* state before either; when the guards overlap, the save, install and restore
\* steps can interleave so that a guarded run_function starts from another
\* state than its snapshot and the final device state differs from the state
\* before either entered, and both streams run to the end of their guards:
\* nothing detects it.
ConcurrentGuardMisuse ==
    (\A s \in Streams : streams[s].alone) =>
        /\ \A s \in Streams :
              streams[s].pc \in {"ran", "done"} => streams[s].observed = streams[s].snap
        /\ (\A s \in Streams : streams[s].pc = "done") => rng = EntryState

\* Both streams have left their guards; one of them ran its block from a
\* state that was not its snapshot, and the device generator is not in the
\* state it had before either stream entered.
ConcurrentGuardMisuseWitness ==
    /\ \A s \in Streams : streams[s].pc = "done"
    /\ \E s \in Streams : streams[s].observed # streams[s].snap
    /\ rng # EntryState

\* Node n has executed the statement op of its program.
Passed(n, op) ==
    \E i \in 1..Len(Program(n)) : Program(n)[i] = op /\ ps.pc[n] > i

InStop(w) == ps.pc[w] > Len(InitWorkerProgram)

\* C17: shutdown ordering.  stop_server is executed at most once and only by
\* the first worker, only when every worker has called the first
\* barrier_worker of stop (its second barrier_worker call); a worker that has
\* returned from stop finds stop_server executed, and once all workers have
\* returned it has been executed exactly once.
ShutdownOrdering ==
    /\ Len(ps.stop_server) <= 1
    /\ \A k \in 1..Len(ps.stop_server) : IsFirstWorker(ps.stop_server[k])
    /\ ps.stop_server # <<>> =>
          \A w \in Workers : InStop(w) /\ Arrived(w, "barrier_worker") >= 2
    /\ \A w \in Workers : Returned(w) => Len(ps.stop_server) = 1

\* Every worker has returned from stop, after the first worker stopped the
\* servers.
ShutdownOrderingWitness ==
    /\ \A w \in Workers : Returned(w)
    /\ ps.stop_server = << <<"worker", 1>> >>

\* C18: startup phase ordering.  A node that has called gather_ips finds
\* every server past set_ip; init_model is executed at most once and only by
\* the first worker, only when every server has finished gather_servers and
\* every worker has finished the executor's init_worker; and a worker that has
\* returned from init_worker finds init_model executed exactly once.
StartupOrdering ==
    /\ \A n \in Nodes : Passed(n, "gather_ips") =>
          \A s \in Servers : Passed(s, "start_server") /\ Passed(s, "set_ip")
    /\ Len(ps.init_model) <= 1
    /\ \A k \in 1..Len(ps.init_model) : IsFirstWorker(ps.init_model[k])
    /\ ps.init_model # <<>> =>
          /\ \A s \in Servers : Passed(s, "gather_servers")
          /\ \A w \in Workers : Passed(w, "executor.init_worker")
    /\ \A w \in Workers : InStop(w) => Len(ps.init_model) = 1

\* Every worker has returned from init_worker and none has yet called the
\* barrier of stop; the first worker initialised the model.
StartupOrderingWitness ==
    /\ \A w \in Workers : InStop(w) /\ Arrived(w, "barrier_worker") = 1
    /\ \A s \in Servers : Returned(s)
    /\ ps.init_model = << <<"worker", 1>> >>

\* C19: the barrier protocol is free of deadlock.  With barriers that release
\* once all their members have arrived, every server eventually returns from
\* init_server and every worker from init_worker and from stop.
BarrierProtocolTerminates == <>(\A n \in Nodes : Returned(n))

\* Every node has returned from its calls, each having called barrier_all
\* twice.
BarrierProtocolWitness ==
    /\ \A n \in Nodes : Returned(n)
    /\ \A n \in Nodes : Arrived(n, "barrier_all") = 2

\* The arguments pass the validation the claim lists.
ValidRun ==
    /\ runObs.data_feed.kind # "none"
    /\ runObs.filelist.kind # "none"
    /\ runObs.thread_num.kind = "int"
    /\ \A k \in 1..Len(runObs.fetch.val) :
          LET shape == runObs.fetch.val[k].shape IN shape[Len(shape)] = 1

\* C20: dispatch of AsyncExecutor.run.  run calls executor.run_from_files
\* exactly once when data_feed and filelist are given, thread_num is an
\* integer and every fetch variable has last dimension 1, with no fetch
\* variable names when fetch is None; otherwise it raises ValueError,
\* TypeError or AssertionError and does not call run_from_files.
RunDispatch ==
    runObs.op = "run" =>
        IF ValidRun
        THEN /\ runObs.outcome = "returned"
             /\ Len(runObs.run_from_files) = 1
             /\ runObs.fetch.kind = "none" =>
                   runObs.run_from_files[1].fetch_var_names = <<>>
        ELSE /\ runObs.outcome \in {"ValueError", "TypeError", "AssertionError"}
             /\ runObs.run_from_files = <<>>

====
